---- MODULE Spec2Model ----
(***************************************************************************)
(* reditor: the editing core of a modal terminal editor.                   *)
(*                                                                         *)
(* Editor (src/src/editor.rs) owns one Buffer, the Mode and the cursor its *)
(* dispatch loop moves; Buffer (src/src/buffer.rs) owns the rows of text.  *)
(* A row is a Rust String: a sequence of UTF-8 bytes.  Its width is its    *)
(* length in bytes and every column is a byte offset, so rows are modelled *)
(* as sequences of byte values and the String methods keep their panics    *)
(* (an offset past the end, or inside a multi-byte character).             *)
(*                                                                         *)
(* editor.rs hands the cursor to the buffer operations                     *)
(* (buf.insert_at(cursor, ch), buf.break_line(cursor)), buffer.rs reads it *)
(* from the buffer's own cursor field; the operations below take the       *)
(* position as a parameter, which covers both.                             *)
(***************************************************************************)
EXTENDS Integers, Sequences, FiniteSets, TLC

VARIABLES
    content,          \* Buffer::content: the rows, each a sequence of bytes
    cursor,           \* the cursor, [x |-> column, y |-> row]
    mode,             \* Editor::mode: "Normal" or "Insert"
    status,           \* "new", "running", "quit" (execute returned Ok),
                      \* "io_error" (execute returned Err), "panicked"
    raw_mode,         \* the terminal is in raw mode
    overflow_checks,  \* the build: TRUE panics on integer overflow, FALSE wraps
    last,             \* the dispatch arm (or buffer operation) that ran last
    steps,            \* the number of events read so far
    orig              \* the buffer operations' specification: the content at start

vars == <<content, cursor, mode, status, raw_mode, overflow_checks, last, steps, orig>>

----------------------------------------------------------------------------
(* Bounds of the model. *)

\* Events read by one run of the dispatch loop.
MaxSteps == 7

\* Rows of a buffer handed to the buffer operations on their own.
MaxBufHeight == 2

\* Characters of a row handed to the buffer operations on their own.
MaxLineChars == 2

----------------------------------------------------------------------------
(* Values. *)

\* Option::None, for line_width.
None == -1

\* The value a usize subtraction wraps to in a build without overflow checks
\* (2^64 - 1 in the program; here the largest integer TLC represents, which
\* like it exceeds every column a run reaches).
UsizeMax == 2147483647

Min(a, b) == IF a <= b THEN a ELSE b

\* usize::saturating_sub
saturating_sub(a, b) == IF a >= b THEN a - b ELSE 0

\* Option<usize>::unwrap_or
unwrap_or(o, d) == IF o = None THEN d ELSE o

\* The UTF-8 encoding of the characters the model types and stores.
Utf8(ch) ==
    CASE ch = "x" -> <<120>>
      [] ch = "[" -> <<91>>
      [] ch = "e_acute" -> <<195, 169>>
      [] OTHER -> <<63>>

Hello == <<72, 101, 108, 108, 111>>

Hi == <<72, 105>>

\* Buffer::mock: the seed buffer.
mock == <<Hello, Hi>>

----------------------------------------------------------------------------
(* std::string::String and Vec, as the buffer uses them. *)

IsContinuationByte(b) == b >= 128 /\ b < 192

\* str::is_char_boundary
is_char_boundary(s, idx) ==
    \/ idx = 0
    \/ idx = Len(s)
    \/ idx < Len(s) /\ ~IsContinuationByte(s[idx + 1])

\* char::len_utf8 of the character that starts at byte idx.
len_utf8_at(s, idx) ==
    IF s[idx + 1] < 128 THEN 1
    ELSE IF s[idx + 1] < 224 THEN 2
    ELSE IF s[idx + 1] < 240 THEN 3 ELSE 4

\* String::insert panics unless idx is a char boundary (so also when past the end).
String_insert_panics(s, idx) == ~is_char_boundary(s, idx)

String_insert(s, idx, bytes) ==
    SubSeq(s, 1, idx) \o bytes \o SubSeq(s, idx + 1, Len(s))

\* String::remove panics at the end of the string and off a char boundary.
String_remove_panics(s, idx) == idx >= Len(s) \/ ~is_char_boundary(s, idx)

String_remove(s, idx) ==
    SubSeq(s, 1, idx) \o SubSeq(s, idx + len_utf8_at(s, idx) + 1, Len(s))

\* Vec::insert (panics when at > len) and Vec::remove (panics when at >= len).
Vec_insert(v, at, e) == SubSeq(v, 1, at) \o <<e>> \o SubSeq(v, at + 1, Len(v))

Vec_remove(v, at) == SubSeq(v, 1, at) \o SubSeq(v, at + 2, Len(v))

----------------------------------------------------------------------------
(* Buffer (src/src/buffer.rs).  Rows and columns are zero-based. *)

height(c) == Len(c)

line_width(c, line) == IF line < Len(c) THEN Len(c[line + 1]) ELSE None

insert_at_panics(c, pos, ch) ==
    pos.y < Len(c) /\ String_insert_panics(c[pos.y + 1], pos.x)

insert_at(c, pos, ch) ==
    IF pos.y < Len(c)
    THEN [c EXCEPT ![pos.y + 1] = String_insert(@, pos.x, Utf8(ch))]
    ELSE c

new_line_panics(c, at) == at > Len(c)

\* new_line as a push: the row goes to the end of the buffer, whatever `at` is.
new_line_pushes(c, at) == Vec_insert(c, Len(c), <<>>)

new_line(c, at) == Vec_insert(c, at, <<>>)

\* line[x..] panics unless x is a char boundary of the row.
break_line_panics(c, pos) ==
    pos.y < Len(c) /\ ~is_char_boundary(c[pos.y + 1], pos.x)

break_line(c, pos) ==
    IF pos.y < Len(c)
    THEN LET line == c[pos.y + 1]
             new_line_text == SubSeq(line, pos.x + 1, Len(line))
             truncated == [c EXCEPT ![pos.y + 1] = SubSeq(line, 1, pos.x)]
         IN  Vec_insert(truncated, pos.y + 1, new_line_text)
    ELSE c

\* The body of delete_at, on the position it has computed.
delete_at_pos_panics(c, pos) ==
    pos.y < Len(c) /\ String_remove_panics(c[pos.y + 1], pos.x)

delete_at_pos(c, pos) ==
    IF pos.y < Len(c)
    THEN [c EXCEPT ![pos.y + 1] = String_remove(@, pos.x)]
    ELSE c

concat_lines_panics(c, l1, l2) == l1 >= Len(c)

\* concat_lines with the operands of the join swapped: l1's text goes in front.
concat_lines_prepends(c, l1, l2) ==
    LET removed == c[l1 + 1]
        rest == Vec_remove(c, l1)
    IN  IF l2 < Len(rest)
        THEN [rest EXCEPT ![l2 + 1] = removed \o @]
        ELSE rest

concat_lines(c, l1, l2) ==
    LET removed == c[l1 + 1]
        rest == Vec_remove(c, l1)
    IN  IF l2 < Len(rest)
        THEN [rest EXCEPT ![l2 + 1] = @ \o removed]
        ELSE rest

delete_line_panics(c, line) == line >= Len(c)

\* delete_line removing the last row whatever the line.
delete_line_last(c, line) == Vec_remove(c, Len(c) - 1)

delete_line(c, line) == Vec_remove(c, line)

\* Pos - Pos / Pos + Pos in delete_at: the row the direction points at.  The
\* subtraction underflows on row 0.
delete_at_target_overflows(cur, direction) == direction = "Up" /\ cur.y = 0

delete_at_target(cur, direction) ==
    CASE direction = "Up" ->
             [x |-> cur.x, y |-> IF cur.y = 0 THEN UsizeMax ELSE cur.y - 1]
      [] direction = "Down" -> [x |-> cur.x, y |-> cur.y + 1]
      [] OTHER -> cur

delete_at_panics(c, cur, direction) ==
    \/ overflow_checks /\ delete_at_target_overflows(cur, direction)
    \/ delete_at_pos_panics(c, delete_at_target(cur, direction))

delete_at(c, cur, direction) == delete_at_pos(c, delete_at_target(cur, direction))

----------------------------------------------------------------------------
(* Cursor motion (Editor::handle_cursor_movment; Buffer::handle_cursor_movment *)
(* is the same algorithm on the buffer's own cursor).                          *)

\* `width -= 1` on a width of 0: the one subtraction that is not saturating.
handle_cursor_movment_overflows(c, cur, m, direction) ==
    /\ direction = "Right"
    /\ m = "Normal"
    /\ unwrap_or(line_width(c, cur.y), 0) = 0

handle_cursor_movment(c, cur, m, direction) ==
    CASE direction = "Up" ->
             LET line == saturating_sub(cur.y, 1)
                 width == saturating_sub(unwrap_or(line_width(c, line), 0), 1)
             IN  [x |-> Min(width, cur.x), y |-> line]
      [] direction = "Down" ->
             LET line == Min(saturating_sub(height(c), 1), cur.y + 1)
                 width == saturating_sub(unwrap_or(line_width(c, line), 0), 1)
             IN  [x |-> Min(width, cur.x), y |-> line]
      [] direction = "Left" ->
             [x |-> saturating_sub(cur.x, 1), y |-> cur.y]
      [] OTHER ->
             LET full == unwrap_or(line_width(c, cur.y), 0)
                 width == IF m = "Normal"
                          THEN (IF full = 0 THEN UsizeMax ELSE full - 1)
                          ELSE full
             IN  [x |-> Min(width, cur.x + 1), y |-> cur.y]

move_cursor_start_of_the_line(cur) == [x |-> 0, y |-> cur.y]

\* Editor::move_cursor_end_of_the_line looks the width up by self.cursor.x.
move_cursor_end_of_the_line(c, cur) ==
    [x |-> unwrap_or(line_width(c, cur.x), 0), y |-> cur.y]

----------------------------------------------------------------------------
(* Events and the two resolvers. *)

Key(code, ch, ctrl) == [code |-> code, ch |-> ch, ctrl |-> ctrl]

Char(ch) == Key("Char", ch, FALSE)

Act(kind, dir, m, ch) == [kind |-> kind, dir |-> dir, mode |-> m, ch |-> ch]

NoAction == Act("None", "-", "-", "-")

Normal_handle(ev) ==
    IF ev.code # "Char" THEN NoAction
    ELSE CASE ev.ch = "j" -> Act("Move", "Down", "-", "-")
           [] ev.ch = "k" -> Act("Move", "Up", "-", "-")
           [] ev.ch = "h" -> Act("Move", "Left", "-", "-")
           [] ev.ch = "l" -> Act("Move", "Right", "-", "-")
           [] ev.ch = "i" -> Act("Change", "None", "Insert", "-")
           [] ev.ch = "a" -> Act("Change", "Right", "Insert", "-")
           [] ev.ch = "O" -> Act("Line", "Up", "-", "-")
           [] ev.ch = "o" -> Act("Line", "Down", "-", "-")
           [] ev.ch = "q" -> Act("Quit", "-", "-", "-")
           [] ev.ch = "D" -> Act("DeleteLine", "-", "-", "-")
           [] OTHER -> NoAction

Insert_handle(ev) ==
    CASE ev.code = "Esc" -> Act("Change", "Left", "Normal", "-")
      [] ev.code = "Char" /\ ev.ch = "[" /\ ev.ctrl -> Act("Change", "Left", "Normal", "-")
      [] ev.code = "Enter" -> Act("Line", "Down", "-", "-")
      [] ev.code = "Backspace" -> Act("Delete", "-", "-", "-")
      [] ev.code = "Char" -> Act("Input", "-", "-", ev.ch)
      [] OTHER -> NoAction

\* The keys of the Normal table, one key it does not know, and the named keys.
CommandKeys ==
    {Char(ch) : ch \in {"j", "k", "h", "l", "i", "a", "O", "o", "q", "D", "x"}}
        \cup {Key("Esc", "-", FALSE), Key("Tab", "-", FALSE)}

\* Insert::handle turns every Char into Input: "x" stands for the one-byte
\* characters, "e_acute" for the multi-byte ones.
TextKeys ==
    {Char("x"), Char("e_acute"), Key("Char", "[", TRUE), Key("Esc", "-", FALSE),
     Key("Enter", "-", FALSE), Key("Backspace", "-", FALSE), Key("Tab", "-", FALSE)}

\* event::read: the events a user sends in each mode.
Events == IF mode = "Normal" THEN CommandKeys ELSE TextKeys

\* The resolver of the other mode.
Resolve_swapped(ev) == IF mode = "Normal" THEN Insert_handle(ev) ELSE Normal_handle(ev)

\* editor.rs 114-119: the resolver of the current mode.
Resolve(ev) == IF mode = "Normal" THEN Normal_handle(ev) ELSE Insert_handle(ev)

----------------------------------------------------------------------------
(* Editor::execute: the dispatch loop, one action per arm of the match. *)

\* Editor::default: the seed buffer, cursor (0,0), Normal mode; execute has not
\* been entered.
Init ==
    /\ content = mock
    /\ cursor = [x |-> 0, y |-> 0]
    /\ mode = "Normal"
    /\ status = "new"
    /\ raw_mode = FALSE
    /\ overflow_checks \in BOOLEAN
    /\ last = "Init"
    /\ steps = 0
    /\ orig = <<>>

\* The loop reads an event: it is running and the run is within the bound.
Reads(ev) ==
    /\ status = "running"
    /\ steps < MaxSteps
    /\ ev \in Events

\* editor.rs 99-106: execute enters the alternate screen, clears it, enables raw
\* mode and draws the buffer; each of the four may fail, and `?` returns the
\* error at once.
Start ==
    \E outcome \in {"ok", "failed_before_raw_mode", "failed_after_raw_mode"} :
        /\ status = "new"
        /\ status' = IF outcome = "ok" THEN "running" ELSE "io_error"
        /\ raw_mode' = (outcome # "failed_before_raw_mode")
        /\ last' = "Start"
        /\ UNCHANGED <<content, cursor, mode, overflow_checks, steps, orig>>

\* editor.rs 109-112: queueing the cursor move, the flush or event::read fails
\* and `?` returns the error out of execute.  (A write failing inside an arm
\* returns the same way.)
IoError ==
    /\ status = "running"
    /\ status' = "io_error"
    /\ last' = "IoError"
    /\ UNCHANGED <<content, cursor, mode, raw_mode, overflow_checks, steps, orig>>

\* A panic unwinds out of execute and ends the process: the buffer, cursor and
\* mode are kept as the arm found them (the arms that can panic do so before
\* their first write to the buffer).
Panic(arm) ==
    /\ status' = "panicked"
    /\ last' = arm
    /\ steps' = steps + 1
    /\ UNCHANGED <<content, cursor, mode, raw_mode, overflow_checks, orig>>

\* The arm ran to its end: the loop goes on.
Ran(arm) ==
    /\ last' = arm
    /\ steps' = steps + 1
    /\ UNCHANGED <<status, raw_mode, overflow_checks, orig>>

\* self.handle_cursor_movment(direction) as a whole arm (editor.rs 122).
Move ==
    \E ev \in Events :
        /\ Reads(ev)
        /\ Resolve(ev).kind = "Move"
        /\ LET direction == Resolve(ev).dir
           IN  IF handle_cursor_movment_overflows(content, cursor, mode, direction)
                  /\ overflow_checks
               THEN Panic("Move" \o direction)
               ELSE /\ cursor' = handle_cursor_movment(content, cursor, mode, direction)
                    /\ UNCHANGED <<content, mode>>
                    /\ Ran("Move" \o direction)

\* editor.rs 123 and 217-221: break, then disable_raw_mode and
\* LeaveAlternateScreen, each of which may fail.
Quit ==
    \E ev \in Events, outcome \in {"ok", "disable_failed", "leave_failed"} :
        /\ Reads(ev)
        /\ Resolve(ev).kind = "Quit"
        /\ status' = IF outcome = "ok" THEN "quit" ELSE "io_error"
        /\ raw_mode' = (outcome = "disable_failed")
        /\ last' = "Quit"
        /\ steps' = steps + 1
        /\ UNCHANGED <<content, cursor, mode, overflow_checks, orig>>

\* The Change arm with its None case falling into the cursor move (Left).
ChangeArm_always_moves(a) ==
    /\ mode' = a.mode
    /\ cursor' = handle_cursor_movment(content, cursor, a.mode,
                                        IF a.dir = "None" THEN "Left" ELSE a.dir)
    /\ UNCHANGED content
    /\ Ran("Change" \o a.mode \o a.dir)

\* editor.rs 124-128: Change(mode, Some(direction)) and Change(mode, None).
ChangeArm(a) ==
    IF a.dir = "None"
    THEN /\ mode' = a.mode
         /\ UNCHANGED <<content, cursor>>
         /\ Ran("Change" \o a.mode \o a.dir)
    ELSE IF handle_cursor_movment_overflows(content, cursor, a.mode, a.dir)
            /\ overflow_checks
    THEN Panic("Change" \o a.mode \o a.dir)
    ELSE /\ mode' = a.mode
         /\ cursor' = handle_cursor_movment(content, cursor, a.mode, a.dir)
         /\ UNCHANGED content
         /\ Ran("Change" \o a.mode \o a.dir)

Change ==
    \E ev \in Events :
        /\ Reads(ev)
        /\ Resolve(ev).kind = "Change"
        /\ ChangeArm(Resolve(ev))

\* editor.rs 129-141: Delete at the start of a row below the first.
DeleteJoin ==
    \E ev \in Events :
        /\ Reads(ev)
        /\ Resolve(ev).kind = "Delete"
        /\ mode = "Insert"
        /\ cursor.x = 0 /\ cursor.y > 0
        /\ LET up == handle_cursor_movment(content, cursor, mode, "Up")
               at_end == move_cursor_end_of_the_line(content, up)
           IN  IF concat_lines_panics(content, at_end.y + 1, at_end.y)
               THEN Panic("DeleteJoin")
               ELSE /\ content' = concat_lines(content, at_end.y + 1, at_end.y)
                    /\ cursor' = at_end
                    /\ UNCHANGED mode
                    /\ Ran("DeleteJoin")

\* editor.rs 142-150: Delete inside a row.
DeleteChar ==
    \E ev \in Events :
        /\ Reads(ev)
        /\ Resolve(ev).kind = "Delete"
        /\ mode = "Insert"
        /\ ~(cursor.x = 0 /\ cursor.y > 0)
        /\ cursor.x > 0
        /\ LET target == [x |-> cursor.x - 1, y |-> cursor.y]
           IN  IF delete_at_pos_panics(content, target)
               THEN Panic("DeleteChar")
               ELSE /\ content' = delete_at_pos(content, target)
                    /\ cursor' = handle_cursor_movment(content', cursor, mode, "Left")
                    /\ UNCHANGED mode
                    /\ Ran("DeleteChar")

\* editor.rs 151: every other Delete does nothing.
DeleteNoop ==
    \E ev \in Events :
        /\ Reads(ev)
        /\ Resolve(ev).kind = "Delete"
        /\ ~(mode = "Insert" /\ cursor.x = 0 /\ cursor.y > 0)
        /\ ~(mode = "Insert" /\ cursor.x > 0)
        /\ UNCHANGED <<content, cursor, mode>>
        /\ Ran("DeleteNoop")

\* editor.rs 152-161: Input in Insert; in any other mode unreachable!().
Input ==
    \E ev \in Events :
        /\ Reads(ev)
        /\ Resolve(ev).kind = "Input"
        /\ LET ch == Resolve(ev).ch
           IN  IF mode # "Insert"
               THEN Panic("InputUnreachable")
               ELSE IF insert_at_panics(content, cursor, ch)
               THEN Panic("Input")
               ELSE /\ content' = insert_at(content, cursor, ch)
                    /\ cursor' = handle_cursor_movment(content', cursor, mode, "Right")
                    /\ UNCHANGED mode
                    /\ Ran("Input")

\* editor.rs 179: the mode the Line arm of Normal ends in.
line_normal_mode == "Insert"

\* The Line arm of Insert leaving Insert.
line_insert_mode_normal == "Normal"

\* editor.rs 200: the mode the Line arm of Insert ends in.
line_insert_mode == "Insert"

\* editor.rs 162-181: Line in Normal opens a row and enters Insert.
LineNormal ==
    \E ev \in Events :
        /\ Reads(ev)
        /\ Resolve(ev).kind = "Line"
        /\ mode = "Normal"
        /\ LET direction == Resolve(ev).dir
           IN  CASE direction = "Up" ->
                        IF new_line_panics(content, cursor.y)
                        THEN Panic("LineNormalUp")
                        ELSE /\ content' = new_line(content, cursor.y)
                             /\ UNCHANGED cursor
                             /\ mode' = line_normal_mode
                             /\ Ran("LineNormalUp")
                 [] direction = "Down" ->
                        IF new_line_panics(content, cursor.y + 1)
                        THEN Panic("LineNormalDown")
                        ELSE /\ content' = new_line(content, cursor.y + 1)
                             /\ cursor' = handle_cursor_movment(content', cursor, mode, "Down")
                             /\ mode' = line_normal_mode
                             /\ Ran("LineNormalDown")
                 [] OTHER -> Panic("LineNormalUnreachable")

\* editor.rs 182-202: Line in Insert splits the row at the cursor.
LineInsert ==
    \E ev \in Events :
        /\ Reads(ev)
        /\ Resolve(ev).kind = "Line"
        /\ mode = "Insert"
        /\ LET direction == Resolve(ev).dir
           IN  CASE direction = "Up" ->
                        IF break_line_panics(content, cursor)
                        THEN Panic("LineInsertUp")
                        ELSE /\ content' = break_line(content, cursor)
                             /\ UNCHANGED cursor
                             /\ mode' = line_insert_mode
                             /\ Ran("LineInsertUp")
                 [] direction = "Down" ->
                        IF break_line_panics(content, cursor)
                        THEN Panic("LineInsertDown")
                        ELSE /\ content' = break_line(content, cursor)
                             /\ cursor' = move_cursor_start_of_the_line(
                                    handle_cursor_movment(content', cursor, mode, "Down"))
                             /\ mode' = line_insert_mode
                             /\ Ran("LineInsertDown")
                 [] OTHER -> Panic("LineInsertUnreachable")

\* editor.rs 203-213: DeleteLine in Normal; in any other mode todo!().
DeleteLine ==
    \E ev \in Events :
        /\ Reads(ev)
        /\ Resolve(ev).kind = "DeleteLine"
        /\ IF mode # "Normal"
           THEN Panic("DeleteLineTodo")
           ELSE IF delete_line_panics(content, cursor.y)
           THEN Panic("DeleteLine")
           ELSE /\ content' = delete_line(content, cursor.y)
                /\ cursor' = handle_cursor_movment(content', cursor, mode, "Up")
                /\ UNCHANGED mode
                /\ Ran("DeleteLine")

\* editor.rs 114-119: the resolver knows no action for the event: continue.
Ignored ==
    \E ev \in Events :
        /\ Reads(ev)
        /\ Resolve(ev).kind = "None"
        /\ UNCHANGED <<content, cursor, mode>>
        /\ Ran("Ignored")

Next ==
    \/ Start
    \/ IoError
    \/ Move
    \/ Quit
    \/ Change
    \/ DeleteJoin
    \/ DeleteChar
    \/ DeleteNoop
    \/ Input
    \/ LineNormal
    \/ LineInsert
    \/ DeleteLine
    \/ Ignored

Spec == Init /\ [][Next]_vars

----------------------------------------------------------------------------
(* The buffer operations on their own: a buffer and a cursor on one of its  *)
(* rows, at a column from 0 to the row's width, and the operations applied  *)
(* to it with that cursor.                                                  *)

TextChars == {"x", "e_acute"}

RECURSIVE Encode(_)
Encode(chars) ==
    IF chars = <<>> THEN <<>> ELSE Utf8(Head(chars)) \o Encode(Tail(chars))

\* The rows of at most MaxLineChars characters.
Lines ==
    {Encode(chars) : chars \in UNION {[1..n -> TextChars] : n \in 0..MaxLineChars}}

\* The buffers of one to MaxBufHeight rows.
Buffers == UNION {[1..h -> Lines] : h \in 1..MaxBufHeight}

InitBuf ==
    /\ content \in Buffers
    /\ cursor \in {[x |-> x, y |-> y] : x \in 0..(2 * MaxLineChars), y \in 0..(MaxBufHeight - 1)}
    /\ cursor.y < height(content)
    /\ cursor.x <= line_width(content, cursor.y)
    /\ mode = "Insert"
    /\ status = "running"
    /\ raw_mode = TRUE
    /\ overflow_checks \in BOOLEAN
    /\ last = "Init"
    /\ steps = 0
    /\ orig = content

\* One buffer operation ran (or panicked); the cursor stays where it is.
Applied(op, panics) ==
    /\ status' = IF panics THEN "panicked" ELSE "running"
    /\ last' = op
    /\ steps' = steps + 1
    /\ UNCHANGED <<cursor, mode, raw_mode, overflow_checks, orig>>

BufBreakLine ==
    /\ status = "running" /\ last = "Init"
    /\ content' = IF break_line_panics(content, cursor)
                  THEN content ELSE break_line(content, cursor)
    /\ Applied("break_line", break_line_panics(content, cursor))

BufConcatLines ==
    /\ status = "running" /\ last = "break_line"
    /\ content' = IF concat_lines_panics(content, cursor.y + 1, cursor.y)
                  THEN content ELSE concat_lines(content, cursor.y + 1, cursor.y)
    /\ Applied("concat_lines", concat_lines_panics(content, cursor.y + 1, cursor.y))

BufInsertAt ==
    \E ch \in TextChars :
        /\ status = "running" /\ last = "Init"
        /\ content' = IF insert_at_panics(content, cursor, ch)
                      THEN content ELSE insert_at(content, cursor, ch)
        /\ Applied("insert_at", insert_at_panics(content, cursor, ch))

BufDeleteAt ==
    /\ status = "running" /\ last = "insert_at"
    /\ content' = IF delete_at_panics(content, cursor, "None")
                  THEN content ELSE delete_at(content, cursor, "None")
    /\ Applied("delete_at", delete_at_panics(content, cursor, "None"))

NextBuf == BufBreakLine \/ BufConcatLines \/ BufInsertAt \/ BufDeleteAt

SpecBuf == InitBuf /\ [][NextBuf]_vars

----------------------------------------------------------------------------
(* The Change arm on its own: an editor state (a buffer, a cursor on one of  *)
(* its rows, either mode) and the arm applied once to any Change action,     *)
(* those included that no resolver emits in that mode.  orig keeps the state *)
(* the arm started from.                                                     *)

Modes == {"Normal", "Insert"}

ChangeDirections == {"None", "Up", "Down", "Left", "Right"}

InitDispatch ==
    /\ content \in Buffers
    /\ cursor \in {[x |-> x, y |-> y] : x \in 0..(2 * MaxLineChars), y \in 0..(MaxBufHeight - 1)}
    /\ cursor.y < height(content)
    /\ mode \in Modes
    /\ cursor.x <= line_width(content, cursor.y)
    /\ mode = "Normal" => cursor.x <= saturating_sub(line_width(content, cursor.y), 1)
    /\ status = "running"
    /\ raw_mode = TRUE
    /\ overflow_checks \in BOOLEAN
    /\ last = "Init"
    /\ steps = 0
    /\ orig = [content |-> content, cursor |-> cursor, mode |-> mode]

DispatchChange ==
    \E m \in Modes, d \in ChangeDirections :
        /\ status = "running" /\ last = "Init"
        /\ ChangeArm(Act("Change", d, m, "-"))

NextDispatch == DispatchChange

SpecDispatch == InitDispatch /\ [][NextDispatch]_vars

----------------------------------------------------------------------------
(* The claims. *)

\* The row the cursor is on, when there is one.
CursorOnRow == cursor.y < height(content)

\* C1: in every state reachable from the seed buffer by key events, the cursor
\* row is a row of the buffer: 0 <= cursor.y < height().
C1_CursorRowInBuffer == cursor.y >= 0 /\ cursor.y < height(content)

\* C2: in every reachable state in Normal mode, cursor.x < line_width(cursor.y)
\* when the cursor's row is not empty, and cursor.x = 0 when it is empty.
C2_NormalCursorOnCharacter ==
    mode = "Normal" =>
        IF unwrap_or(line_width(content, cursor.y), 0) > 0
        THEN cursor.x < line_width(content, cursor.y)
        ELSE cursor.x = 0

\* C3: in every reachable state in Insert mode, cursor.x <= line_width(cursor.y).
C3_InsertCursorWithinRow ==
    (mode = "Insert" /\ CursorOnRow) => cursor.x <= line_width(content, cursor.y)

\* C4: the buffer has at least one row in every reachable state.
C4_AtLeastOneRow == height(content) >= 1

\* C5: in Normal mode Move(Right) ends without error with cursor.x at most w - 1
\* on a row of width w > 0, and with cursor.x = 0 on an empty row.
C5_RightMotionBounded ==
    [][(mode = "Normal" /\ CursorOnRow /\ last' = "MoveRight") =>
          /\ status' = "running"
          /\ cursor'.x <= saturating_sub(line_width(content, cursor.y), 1)]_vars

\* C6: break_line() with the cursor at (x,y), 0 <= x <= line_width(y), followed
\* by concat_lines(y+1, y) gives back the buffer it started from.
C6_SplitJoinRoundTrip ==
    /\ last = "break_line" => status = "running"
    /\ last = "concat_lines" => (status = "running" /\ content = orig)

\* The round trip of C6 where the column is a character boundary of the row.
C6_RoundTripOnCharBoundary ==
    is_char_boundary(orig[cursor.y + 1], cursor.x) =>
        /\ last = "break_line" => status = "running"
        /\ last = "concat_lines" => (status = "running" /\ content = orig)

\* C7: insert_at(c) with the cursor at (x,y), 0 <= x <= line_width(y), followed by
\* delete_at(None) with the cursor still there gives back the buffer it started
\* from.
C7_InsertDeleteInverse ==
    /\ last = "insert_at" => status = "running"
    /\ last = "delete_at" => (status = "running" /\ content = orig)

\* The inverse of C7 where the column is a character boundary of the row.
C7_InverseOnCharBoundary ==
    is_char_boundary(orig[cursor.y + 1], cursor.x) =>
        /\ last = "insert_at" => status = "running"
        /\ last = "delete_at" => (status = "running" /\ content = orig)

\* C8: in Normal mode with the cursor on row y, Line(Down) inserts one empty row
\* at index y+1 (rows 0..y unchanged, the rows after them one lower), puts the
\* cursor at (0, y+1) and enters Insert.
C8_OpenLineBelow ==
    [][(mode = "Normal" /\ CursorOnRow /\ last' = "LineNormalDown") =>
          LET y == cursor.y
          IN  /\ status' = "running"
              /\ height(content') = height(content) + 1
              /\ \A i \in 1..(y + 1) : content'[i] = content[i]
              /\ content'[y + 2] = <<>>
              /\ \A i \in (y + 2)..height(content) : content'[i + 1] = content[i]
              /\ cursor' = [x |-> 0, y |-> y + 1]
              /\ mode' = "Insert"]_vars

\* C8 happens: o on the seed buffer at (0,0).
C8_Witness ==
    /\ last = "LineNormalDown"
    /\ status = "running"
    /\ content = <<Hello, <<>>, Hi>>
    /\ cursor = [x |-> 0, y |-> 1]
    /\ mode = "Insert"

\* C9: in Insert mode with the cursor at (x,y) on a row with text L, Line(Down)
\* leaves row y with the text of L left of column x, inserts the text of L from
\* column x on as row y+1 (the rows after it one lower), puts the cursor at
\* (0, y+1) and stays in Insert.
C9_EnterSplitsRow ==
    [][(mode = "Insert" /\ CursorOnRow /\ last' = "LineInsertDown") =>
          LET y == cursor.y
              L == content[y + 1]
              x == Min(cursor.x, Len(L))
          IN  /\ status' = "running"
              /\ height(content') = height(content) + 1
              /\ \A i \in 1..y : content'[i] = content[i]
              /\ content'[y + 1] = SubSeq(L, 1, x)
              /\ content'[y + 2] = SubSeq(L, x + 1, Len(L))
              /\ \A i \in (y + 2)..height(content) : content'[i + 1] = content[i]
              /\ cursor' = [x |-> 0, y |-> y + 1]
              /\ mode' = "Insert"]_vars

\* The split of C9 where the cursor is on a character boundary of its row.
C9_SplitOnCharBoundary ==
    [][(/\ mode = "Insert" /\ CursorOnRow /\ last' = "LineInsertDown"
        /\ is_char_boundary(content[cursor.y + 1], cursor.x)) =>
          LET y == cursor.y
              L == content[y + 1]
              x == cursor.x
          IN  /\ status' = "running"
              /\ height(content') = height(content) + 1
              /\ \A i \in 1..y : content'[i] = content[i]
              /\ content'[y + 1] = SubSeq(L, 1, x)
              /\ content'[y + 2] = SubSeq(L, x + 1, Len(L))
              /\ \A i \in (y + 2)..height(content) : content'[i + 1] = content[i]
              /\ cursor' = [x |-> 0, y |-> y + 1]
              /\ mode' = "Insert"]_vars

\* C10: in Insert mode with the cursor at (0,y), y > 0, Delete joins row y onto
\* the end of row y-1: one row fewer, row y-1 followed by the old row y, every
\* other row as it was and in its order, still Insert.
C10_BackspaceJoinsRows ==
    [][(mode = "Insert" /\ cursor.x = 0 /\ cursor.y > 0 /\ last' = "DeleteJoin") =>
          LET y == cursor.y
          IN  /\ status' = "running"
              /\ height(content') = height(content) - 1
              /\ \A i \in 1..(y - 1) : content'[i] = content[i]
              /\ content'[y] = content[y] \o content[y + 1]
              /\ \A i \in (y + 1)..height(content') : content'[i] = content[i + 1]
              /\ mode' = "Insert"]_vars

\* C10 happens: Backspace at (0,1) of the seed buffer joins its two rows.
C10_Witness ==
    /\ last = "DeleteJoin"
    /\ status = "running"
    /\ content = <<Hello \o Hi>>
    /\ cursor.y = 0
    /\ mode = "Insert"

\* C11: in Insert mode with the cursor at (x,y), Input(ch) makes row y its first
\* x columns, then ch, then the rest, leaves the other rows and the height as
\* they were, moves the cursor to (x+1, y) and stays in Insert.
C11_InputInsertsAtCursor ==
    [][(mode = "Insert" /\ CursorOnRow /\ last' = "Input") =>
          LET y == cursor.y
              L == content[y + 1]
              x == Min(cursor.x, Len(L))
          IN  /\ status' = "running"
              /\ height(content') = height(content)
              /\ \E ch \in TextChars \cup {"["} :
                     content'[y + 1] = SubSeq(L, 1, x) \o Utf8(ch) \o SubSeq(L, x + 1, Len(L))
              /\ \A i \in 1..height(content) : i # y + 1 => content'[i] = content[i]
              /\ cursor' = [x |-> cursor.x + 1, y |-> y]
              /\ mode' = "Insert"]_vars

\* The insertion of C11 where the cursor is on a character boundary of its row.
C11_InputOnCharBoundary ==
    [][(/\ mode = "Insert" /\ CursorOnRow /\ last' = "Input"
        /\ is_char_boundary(content[cursor.y + 1], cursor.x)) =>
          LET y == cursor.y
              L == content[y + 1]
              x == cursor.x
          IN  /\ status' = "running"
              /\ height(content') = height(content)
              /\ \E ch \in TextChars \cup {"["} :
                     content'[y + 1] = SubSeq(L, 1, x) \o Utf8(ch) \o SubSeq(L, x + 1, Len(L))
              /\ \A i \in 1..height(content) : i # y + 1 => content'[i] = content[i]
              /\ cursor' = [x |-> x + 1, y |-> y]
              /\ mode' = "Insert"]_vars

\* C12: whenever execute has returned (Ok after Quit, or Err after a terminal
\* I/O error) once raw mode was entered, raw mode is off again.
C12_RawModeRestoredAtExit == status \in {"quit", "io_error"} => ~raw_mode

\* The arms whose panic comes out of a buffer operation (String or Vec indexing
\* inside insert_at, new_line, break_line, delete_at, concat_lines, delete_line).
BufferOperationArms ==
    {"Input", "LineNormalUp", "LineNormalDown", "LineInsertUp", "LineInsertDown",
     "DeleteChar", "DeleteJoin", "DeleteLine"}

\* C13: no sequence of key events makes a buffer operation crash: an operation
\* invoked with a row or column outside the buffer is a no-op.
C13_NoBufferOperationPanics == ~(status = "panicked" /\ last \in BufferOperationArms)

\* C14: a Change action never modifies the buffer content; Change(m, None) also
\* leaves the cursor where it is, so Change(Insert, None) applied in Insert mode
\* leaves content, cursor and mode as they were.
C14_ChangeKeepsContent ==
    last # "Init" =>
        /\ content = orig.content
        /\ last \in {"ChangeNormalNone", "ChangeInsertNone"} =>
               (status = "running" /\ cursor = orig.cursor)
        /\ (last = "ChangeInsertNone" /\ orig.mode = "Insert") =>
               (content = orig.content /\ cursor = orig.cursor /\ mode = orig.mode)

\* C14 happens: Change(Insert, None) was applied in Insert mode, with the cursor
\* past column 0 of a row that has text.
C14_Witness ==
    /\ last = "ChangeInsertNone"
    /\ orig.mode = "Insert"
    /\ status = "running"
    /\ orig.cursor.x > 0
    /\ mode = "Insert"

\* C15: in Insert mode with the cursor at (x,y), x > 0, Delete removes exactly
\* the character at column x-1 of row y, leaves the rest of the row, the other
\* rows and the height as they were, and moves the cursor to (x-1, y).
C15_BackspaceRemovesCharLeft ==
    [][(mode = "Insert" /\ CursorOnRow /\ cursor.x > 0 /\ last' = "DeleteChar") =>
          LET y == cursor.y
              L == content[y + 1]
              x == cursor.x
          IN  /\ status' = "running"
              /\ height(content') = height(content)
              /\ content'[y + 1] =
                     SubSeq(L, 1, x - 1) \o SubSeq(L, x + len_utf8_at(L, x - 1), Len(L))
              /\ \A i \in 1..height(content) : i # y + 1 => content'[i] = content[i]
              /\ cursor' = [x |-> x - 1, y |-> y]]_vars

\* The deletion of C15 where column x-1 is the start of a character of the row.
C15_BackspaceOnCharStart ==
    [][(/\ mode = "Insert" /\ CursorOnRow /\ cursor.x > 0 /\ last' = "DeleteChar"
        /\ cursor.x <= Len(content[cursor.y + 1])
        /\ is_char_boundary(content[cursor.y + 1], cursor.x - 1)) =>
          LET y == cursor.y
              L == content[y + 1]
              x == cursor.x
          IN  /\ status' = "running"
              /\ height(content') = height(content)
              /\ content'[y + 1] =
                     SubSeq(L, 1, x - 1) \o SubSeq(L, x + len_utf8_at(L, x - 1), Len(L))
              /\ \A i \in 1..height(content) : i # y + 1 => content'[i] = content[i]
              /\ cursor' = [x |-> x - 1, y |-> y]]_vars

\* The labels of the steps that apply a Change action.
ChangeLabels == {"Change" \o m \o d : m \in Modes, d \in ChangeDirections}

\* C16 as stated: the mode changes only in a step that applies a Change action;
\* Move, Line, Input, Delete and DeleteLine leave it as it was.
C16_ModeChangesOnlyByChange == [][mode' # mode => last' \in ChangeLabels]_vars

\* C16 as amended: the mode changes only in a step that applies a Change action
\* or a Line action in Normal mode (which enters Insert); Move, Input, Delete,
\* DeleteLine and Line in Insert mode leave it as it was.
C16_ModeChangesByChangeOrOpenLine ==
    [][/\ mode' # mode =>
              \/ last' \in ChangeLabels
              \/ mode = "Normal" /\ mode' = "Insert"
                     /\ last' \in {"LineNormalUp", "LineNormalDown"}
       /\ last' \in {"LineInsertUp", "LineInsertDown"} => mode' = mode]_vars

\* C16 happens: Line was applied in Insert mode and the mode is still Insert.
C16_Witness ==
    /\ last = "LineInsertDown"
    /\ status = "running"
    /\ mode = "Insert"
    /\ height(content) = 3

\* The labels of the unreachable!() and todo!() arms of the dispatch.
PanicArms ==
    {"InputUnreachable", "DeleteLineTodo", "LineNormalUnreachable",
     "LineInsertUnreachable"}

\* C17: the dispatch never reaches a panic arm: no step ran one, and in every
\* state the loop reads from, no key event (of either mode's keys) resolves to
\* Input in Normal, DeleteLine in Insert, or Line(Left)/Line(Right).
C17_NoPanicArmReached ==
    /\ last \notin PanicArms
    /\ status = "running" =>
           \A ev \in CommandKeys \cup TextKeys :
               LET a == Resolve(ev)
               IN  /\ a.kind = "Input" => mode = "Insert"
                   /\ a.kind = "DeleteLine" => mode = "Normal"
                   /\ a.kind = "Line" => a.dir \in {"Up", "Down"}

\* C17 happens: Input was dispatched, in Insert mode, and the loop goes on.
C17_Witness ==
    /\ last = "Input"
    /\ status = "running"
    /\ mode = "Insert"
    /\ Len(content[cursor.y + 1]) = 7

\* C18: in Normal mode with the cursor on row y of a buffer of at least two
\* rows, DeleteLine removes exactly row y, keeps every other row and their order,
\* makes the height one less, moves the cursor to row max(y-1, 0) with cursor.x
\* clamped to that row, and stays in Normal.
C18_DeleteLineRemovesRow ==
    [][(/\ mode = "Normal" /\ CursorOnRow /\ height(content) >= 2
        /\ last' = "DeleteLine") =>
          LET y == cursor.y
              row == IF y = 0 THEN 0 ELSE y - 1
          IN  /\ status' = "running"
              /\ height(content') = height(content) - 1
              /\ \A i \in 1..y : content'[i] = content[i]
              /\ \A i \in (y + 1)..height(content') : content'[i] = content[i + 1]
              /\ cursor'.y = row
              /\ cursor'.x = Min(cursor.x, saturating_sub(Len(content'[row + 1]), 1))
              /\ mode' = "Normal"]_vars

\* C18 happens: D on the second row of the seed buffer, with the cursor moved
\* right on the first row before, leaves the first row and the cursor on it.
C18_Witness ==
    /\ last = "DeleteLine"
    /\ status = "running"
    /\ content = <<Hello>>
    /\ cursor = [x |-> 1, y |-> 0]
    /\ mode = "Normal"

\* C19: Move(Up) sets cursor.y to max(cursor.y - 1, 0) and Move(Down) sets it to
\* min(height() - 1, cursor.y + 1); cursor.x becomes min(cursor.x, bound), bound
\* being the width of the target row less one in Normal mode (0 for an empty
\* row); content and mode are unchanged; Up on row 0 and Down on the last row
\* leave cursor.y where it is.
C19_VerticalMotionClamps ==
    [][(mode = "Normal" /\ last' \in {"MoveUp", "MoveDown"}) =>
          LET y == cursor.y
              target == IF last' = "MoveUp"
                        THEN (IF y - 1 > 0 THEN y - 1 ELSE 0)
                        ELSE Min(height(content) - 1, y + 1)
              w == IF target + 1 \in DOMAIN content THEN Len(content[target + 1]) ELSE 0
              bound == IF w = 0 THEN 0 ELSE w - 1
          IN  /\ status' = "running"
              /\ cursor' = [x |-> Min(cursor.x, bound), y |-> target]
              /\ content' = content
              /\ mode' = mode
              /\ (last' = "MoveUp" /\ y = 0) => cursor'.y = y
              /\ (last' = "MoveDown" /\ y = height(content) - 1) => cursor'.y = y]_vars

\* The motion of C19 on a buffer that has a row.
C19_VerticalMotionOnRows ==
    [][(mode = "Normal" /\ height(content) >= 1 /\ last' \in {"MoveUp", "MoveDown"}) =>
          LET y == cursor.y
              target == IF last' = "MoveUp"
                        THEN (IF y - 1 > 0 THEN y - 1 ELSE 0)
                        ELSE Min(height(content) - 1, y + 1)
              w == Len(content[target + 1])
              bound == IF w = 0 THEN 0 ELSE w - 1
          IN  /\ status' = "running"
              /\ cursor' = [x |-> Min(cursor.x, bound), y |-> target]
              /\ content' = content
              /\ mode' = mode]_vars

\* C20: after Delete in Insert mode with the cursor at (0,y), for every y > 0,
\* the cursor is on row y-1 at the column that was the width of row y-1 before
\* the join, the junction of the two joined texts.
C20_CursorAtJunction ==
    [][(mode = "Insert" /\ cursor.x = 0 /\ cursor.y > 0 /\ last' = "DeleteJoin") =>
          /\ status' = "running"
          /\ cursor' = [x |-> Len(content[cursor.y]), y |-> cursor.y - 1]]_vars

\* The join of C20 from row 1, where the row above is row 0.
C20_JunctionFromRowOne ==
    [][(mode = "Insert" /\ cursor.x = 0 /\ cursor.y = 1 /\ last' = "DeleteJoin") =>
          /\ status' = "running"
          /\ cursor' = [x |-> Len(content[1]), y |-> 0]]_vars

====
